---- MODULE Spec2Model ----
(***************************************************************************)
(* A model of the python-sidecar security core of bytebot:                 *)
(*   security/isolation.py        ProjectIsolation (the boundary guard)    *)
(*   security/secure_executor.py  SecurePythonExecutor (the executor)      *)
(*   security/owasp_validator.py  OWASPValidator (the scanner)             *)
(* Paths are sequences of components below "/"; texts are sequences of     *)
(* one-character strings, so that substring and pattern search are done on *)
(* the characters as the code does them.                                   *)
(***************************************************************************)
EXTENDS Integers, Sequences, FiniteSets, TLC

VARIABLES
    cwd,        \* the process-wide working directory (os.getcwd / os.chdir)
    files,      \* regular files of the file system: path -> content
    dirs,       \* directories of the file system
    api,        \* the last call of a pure operation and what it gave
    call,       \* per execute call: where it is and what it holds
    bufs,       \* per execute call: stdout_capture and stderr_capture
    sys_stdout, \* the call whose buffer sys.stdout is (0: the real stream)
    sys_stderr, \* the call whose buffer sys.stderr is (0: the real stream)
    storage     \* the storage calls (open, mkdir) made for the requests under way

(***************************************************************************)
(* Bounds of the model.                                                    *)
(***************************************************************************)
MaxPathLen == 3
MaxStmts == 2
MaxConcStmts == 1
MaxScanLines == 2
MaxTwinStmts == 2
MaxSeqStmts == 2

(***************************************************************************)
(* Values of the executor.                                                 *)
(***************************************************************************)
None == [none |-> TRUE]
Some(x) == [none |-> FALSE, v |-> x]

NoExc == [cls |-> "none", msg |-> <<>>, src |-> "none"]
Exc(cls, msg, src) == [cls |-> cls, msg |-> msg, src |-> src]

\* isinstance(e, Exception): BaseException itself, SystemExit, KeyboardInterrupt and
\* GeneratorExit are not.
IsException(cls) ==
    cls \notin {"none", "BaseException", "SystemExit", "KeyboardInterrupt", "GeneratorExit"}

(***************************************************************************)
(* Texts: a text is a sequence of one-character strings.                   *)
(***************************************************************************)
\* pattern in code (Python's substring test on str).
Contains(pattern, text) ==
    \E i \in 1..(Len(text) - Len(pattern) + 1) :
        \A j \in 1..Len(pattern) : text[i + j - 1] = pattern[j]

RECURSIVE JoinWith(_, _)
\* sep.join(items), on sequences of tokens.
JoinWith(sep, items) ==
    IF items = <<>> THEN <<>>
    ELSE IF Len(items) = 1 THEN <<items[1]>>
    ELSE <<items[1], sep>> \o JoinWith(sep, Tail(items))

(***************************************************************************)
(* The file system the process runs on.                                    *)
(***************************************************************************)
\* A component that holds a NUL byte, such as "a\0b".
NUL == "a\\0b"

RootPath == <<>>
ProjDir == <<"proj">>
Proj2Dir == <<"proj2">>
RootFile == <<"rootfile">>
SrvDir == <<"srv">>

\* Directories that exist when the process starts.
Dirs0 == {RootPath, ProjDir, <<"proj", "sub">>, Proj2Dir, <<"etc">>, SrvDir}

\* Regular files that exist when the process starts: path -> content.
Files0 == (<<"etc", "passwd">> :> "secret") @@ (RootFile :> "x")

\* Symbolic links: path -> target (absolute or relative to the link's directory).
Symlinks ==
    (<<"proj", "link">> :> [abs |-> TRUE, parts |-> <<"etc">>]) @@
    (<<"proj", "in">> :> [abs |-> FALSE, parts |-> <<"sub">>]) @@
    (<<"proj2", "link">> :> [abs |-> TRUE, parts |-> <<"etc">>])

\* The project roots an isolation is constructed on: resolved, existing paths.
Roots == {ProjDir, Proj2Dir, RootFile}

(***************************************************************************)
(* pathlib: Path.resolve() and Path.is_relative_to().                      *)
(***************************************************************************)
Parent(p) == IF p = <<>> THEN <<>> ELSE SubSeq(p, 1, Len(p) - 1)

IsPrefix(r, t) == Len(r) <= Len(t) /\ SubSeq(t, 1, Len(r)) = r

RECURSIVE WalkLexical(_, _)
\* The lexical normal form: ".." and "." folded, symbolic links not followed.
WalkLexical(cur, rest) ==
    IF rest = <<>> THEN cur
    ELSE LET c == Head(rest) IN
         IF c = "." THEN WalkLexical(cur, Tail(rest))
         ELSE IF c = ".." THEN WalkLexical(Parent(cur), Tail(rest))
         ELSE WalkLexical(Append(cur, c), Tail(rest))

RECURSIVE Walk(_, _)
\* os.path.realpath, not strict: components left to right, a symbolic link
\* replaced by its target before the walk goes on, ".." taken on the resolved path.
Walk(cur, rest) ==
    IF rest = <<>> THEN cur
    ELSE LET c == Head(rest) IN
         IF c = "." THEN Walk(cur, Tail(rest))
         ELSE IF c = ".." THEN Walk(Parent(cur), Tail(rest))
         ELSE LET nxt == Append(cur, c) IN
              IF nxt \in DOMAIN Symlinks
              THEN Walk(IF Symlinks[nxt].abs THEN <<>> ELSE cur,
                        Symlinks[nxt].parts \o Tail(rest))
              ELSE Walk(nxt, Tail(rest))

\* Path(base / parts).resolve(): the canonical path, or the exception lstat raises
\* on a path that holds a NUL byte.
Resolve(base, parts) ==
    IF \E i \in 1..Len(parts) : parts[i] = NUL
    THEN [ok |-> FALSE, exc |-> Exc("ValueError", <<"embedded null byte">>, "resolve")]
    ELSE [ok |-> TRUE, path |-> Walk(base, parts)]

\* The canonical form of path p for a guard on root: what the file system makes
\* of it, symbolic links and ".." resolved (the notion the claims are stated in).
Canonical(root, p) ==
    IF p.abs THEN Resolve(<<>>, p.parts) ELSE Resolve(root, p.parts)

InsideRoot(root, p) ==
    Canonical(root, p).ok /\ IsPrefix(root, Canonical(root, p).path)

EscapesRoot(root, p) ==
    Canonical(root, p).ok /\ ~IsPrefix(root, Canonical(root, p).path)

(***************************************************************************)
(* ProjectIsolation.validate_path and is_safe_path.                        *)
(***************************************************************************)
\* The slip of normalising the text of the path instead of resolving it.
TargetLexical(root, p) ==
    IF \E i \in 1..Len(p.parts) : p.parts[i] = NUL
    THEN [ok |-> FALSE, exc |-> Exc("ValueError", <<"embedded null byte">>, "resolve")]
    ELSE [ok |-> TRUE, path |-> WalkLexical(IF p.abs THEN <<>> ELSE root, p.parts)]

\* target = Path(path).resolve() or (self.project_root / path).resolve()
Target(root, p) ==
    IF p.abs THEN Resolve(<<>>, p.parts) ELSE Resolve(root, p.parts)

\* The slip of accepting proper descendants only.
is_relative_to_strict(target, root) == IsPrefix(root, target) /\ target # root

is_relative_to(target, root) == IsPrefix(root, target)

validate_path(root, p) ==
    LET t == Target(root, p) IN
    IF ~t.ok THEN [ok |-> FALSE, exc |-> t.exc]
    ELSE IF ~is_relative_to(t.path, root)
    THEN [ok |-> FALSE,
          exc |-> Exc("PermissionError",
                      <<"Path traversal detected: ">> \o (IF p.abs THEN <<"/">> ELSE <<>>)
                          \o JoinWith("/", p.parts),
                      "validate_path")]
    ELSE [ok |-> TRUE, path |-> t.path]

is_safe_path(root, p) ==
    LET r == validate_path(root, p) IN
    IF r.ok THEN [raised |-> FALSE, value |-> TRUE]
    ELSE IF r.exc.cls = "PermissionError" THEN [raised |-> FALSE, value |-> FALSE]
    ELSE [raised |-> TRUE, exc |-> r.exc]

(***************************************************************************)
(* secure_executor.py: the deny list and its textual check.                *)
(***************************************************************************)
DEFAULT_AUTHORIZED_IMPORTS ==
    {"json", "math", "datetime", "re", "collections", "itertools", "functools", "typing",
     "dataclasses", "pathlib", "os.path", "statistics", "random", "string", "textwrap",
     "unicodedata"}

\* __init__: self.authorized_imports, the defaults and the caller's additions.
authorized_imports(additional) == DEFAULT_AUTHORIZED_IMPORTS \cup additional

BLOCKED_IMPORTS ==
    <<"subprocess", "os.system", "os.popen", "os.spawn", "commands", "pty", "fcntl",
      "resource", "ctypes", "pickle", "marshal", "shelve", "__builtins__">>

\* The characters of a blocked module's name.
ModuleChars(m) ==
    CASE m = "subprocess" -> <<"s", "u", "b", "p", "r", "o", "c", "e", "s", "s">>
      [] m = "os.system" -> <<"o", "s", ".", "s", "y", "s", "t", "e", "m">>
      [] m = "os.popen" -> <<"o", "s", ".", "p", "o", "p", "e", "n">>
      [] m = "os.spawn" -> <<"o", "s", ".", "s", "p", "a", "w", "n">>
      [] m = "commands" -> <<"c", "o", "m", "m", "a", "n", "d", "s">>
      [] m = "pty" -> <<"p", "t", "y">>
      [] m = "fcntl" -> <<"f", "c", "n", "t", "l">>
      [] m = "resource" -> <<"r", "e", "s", "o", "u", "r", "c", "e">>
      [] m = "ctypes" -> <<"c", "t", "y", "p", "e", "s">>
      [] m = "pickle" -> <<"p", "i", "c", "k", "l", "e">>
      [] m = "marshal" -> <<"m", "a", "r", "s", "h", "a", "l">>
      [] m = "shelve" -> <<"s", "h", "e", "l", "v", "e">>
      [] m = "__builtins__" -> <<"_", "_", "b", "u", "i", "l", "t", "i", "n", "s", "_", "_">>

\* The four import idioms searched for one blocked module.
Patterns(blocked) ==
    << <<"i", "m", "p", "o", "r", "t", " ">> \o ModuleChars(blocked),
       <<"f", "r", "o", "m", " ">> \o ModuleChars(blocked),
       <<"_", "_", "i", "m", "p", "o", "r", "t", "_", "_", "(">> \o <<"'">> \o ModuleChars(blocked) \o <<"'">>,
       <<"_", "_", "i", "m", "p", "o", "r", "t", "_", "_", "(">> \o <<"\"">> \o ModuleChars(blocked) \o <<"\"">> >>

\* Whether the text holds blocked in one of the checked idioms.
HasIdiom(blocked, text) ==
    \E k \in 1..Len(Patterns(blocked)) : Contains(Patterns(blocked)[k], text)

\* The slip of leaving the search at the first blocked module found.
_check_blocked_imports_first(text) ==
    LET found == SelectSeq(BLOCKED_IMPORTS, LAMBDA b : HasIdiom(b, text))
    IN  IF found = <<>> THEN <<>> ELSE <<found[1]>>

\* blocked_found, in the order of BLOCKED_IMPORTS, each module once.
_check_blocked_imports(text) ==
    SelectSeq(BLOCKED_IMPORTS, LAMBDA b : HasIdiom(b, text))

(***************************************************************************)
(* Caller-supplied code: a sequence of statements, each with the text the  *)
(* deny check sees and the effect exec() has.                              *)
(***************************************************************************)
Statements ==
    {"assign_result", "assign_underscore", "print", "eprint", "raise", "raise_base",
     "write_in", "write_dotdot", "read_link", "try_write_link", "read_in",
     "import_subprocess", "import_json", "from_pickle", "dunder_pty", "dunder_marshal"}

StmtText(s) ==
    CASE s = "assign_result" ->
        <<"r", "e", "s", "u", "l", "t", " ", "=", " ", "2", " ", "+", " ", "2">>
      [] s = "assign_underscore" ->
        <<"_", " ", "=", " ", "5">>
      [] s = "print" ->
        <<"p", "r", "i", "n", "t", "(", "'", "h", "i", "'", ")">>
      [] s = "eprint" ->
        <<"p", "r", "i", "n", "t", ".", "_", "_", "s", "e", "l", "f", "_", "_", ".", "_", "_",
          "i", "m", "p", "o", "r", "t", "_", "_", "(", "'", "s", "y", "s", "'", ")", ".", "s",
          "t", "d", "e", "r", "r", ".", "w", "r", "i", "t", "e", "(", "'", "w", "'", ")">>
      [] s = "raise" ->
        <<"r", "a", "i", "s", "e", " ", "V", "a", "l", "u", "e", "E", "r", "r", "o", "r", "(",
          "'", "b", "o", "o", "m", "'", ")">>
      [] s = "raise_base" ->
        <<"r", "a", "i", "s", "e", " ", "E", "x", "c", "e", "p", "t", "i", "o", "n", ".", "_",
          "_", "b", "a", "s", "e", "s", "_", "_", "[", "0", "]", "(", "'", "b", "y", "e", "'",
          ")">>
      [] s = "write_in" ->
        <<"s", "e", "c", "u", "r", "e", "_", "w", "r", "i", "t", "e", "_", "f", "i", "l", "e",
          "(", "'", "f", "'", ",", " ", "'", "a", "'", ")">>
      [] s = "write_dotdot" ->
        <<"s", "e", "c", "u", "r", "e", "_", "w", "r", "i", "t", "e", "_", "f", "i", "l", "e",
          "(", "'", ".", ".", "/", "o", "u", "t", "'", ",", " ", "'", "a", "'", ")">>
      [] s = "read_link" ->
        <<"r", "e", "s", "u", "l", "t", " ", "=", " ", "s", "e", "c", "u", "r", "e", "_", "r",
          "e", "a", "d", "_", "f", "i", "l", "e", "(", "'", "l", "i", "n", "k", "/", "p", "a",
          "s", "s", "w", "d", "'", ")">>
      [] s = "try_write_link" ->
        <<"t", "r", "y", ":", "\n", " ", " ", " ", " ", "s", "e", "c", "u", "r", "e", "_", "w",
          "r", "i", "t", "e", "_", "f", "i", "l", "e", "(", "'", "l", "i", "n", "k", "/", "x",
          "'", ",", " ", "'", "a", "'", ")", "\n", "e", "x", "c", "e", "p", "t", " ", "E", "x",
          "c", "e", "p", "t", "i", "o", "n", ":", "\n", " ", " ", " ", " ", "p", "a", "s", "s">>
      [] s = "read_in" ->
        <<"r", "e", "s", "u", "l", "t", " ", "=", " ", "s", "e", "c", "u", "r", "e", "_", "r",
          "e", "a", "d", "_", "f", "i", "l", "e", "(", "'", "f", "'", ")">>
      [] s = "import_subprocess" ->
        <<"i", "m", "p", "o", "r", "t", " ", "s", "u", "b", "p", "r", "o", "c", "e", "s", "s">>
      [] s = "import_json" ->
        <<"i", "m", "p", "o", "r", "t", " ", "j", "s", "o", "n">>
      [] s = "from_pickle" ->
        <<"f", "r", "o", "m", " ", "p", "i", "c", "k", "l", "e", " ", "i", "m", "p", "o", "r",
          "t", " ", "l", "o", "a", "d", "s">>
      [] s = "dunder_pty" ->
        <<"_", "_", "i", "m", "p", "o", "r", "t", "_", "_", "(", "'", "p", "t", "y", "'", ")">>
      [] s = "dunder_marshal" ->
        <<"_", "_", "i", "m", "p", "o", "r", "t", "_", "_", "(", "\"", "m", "a", "r", "s", "h",
          "a", "l", "\"", ")">>
      [] s = "import_numpy" ->
        <<"i", "m", "p", "o", "r", "t", " ", "n", "u", "m", "p", "y">>
      [] s = "loop" ->
        <<"w", "h", "i", "l", "e", " ", "T", "r", "u", "e", ":", " ", "p", "a", "s", "s">>

RECURSIVE SourceText(_)
\* The source text of a program: its statements, one per line.
SourceText(prog) ==
    IF prog = <<>> THEN <<>>
    ELSE IF Len(prog) = 1 THEN StmtText(prog[1])
    ELSE StmtText(prog[1]) \o <<"\n">> \o SourceText(Tail(prog))

\* What exec() does on a statement: op, and the operands the op needs.
Rel(parts) == [abs |-> FALSE, parts |-> parts]

StmtDef(op, a, b, path, guarded) ==
    [op |-> op, a |-> a, b |-> b, path |-> path, guarded |-> guarded]

Stmt(s) ==
    CASE s = "assign_result" -> StmtDef("assign", "result", "4", Rel(<<>>), FALSE)
      [] s = "assign_underscore" -> StmtDef("assign", "_", "5", Rel(<<>>), FALSE)
      [] s = "print" -> StmtDef("print", "hi\n", "", Rel(<<>>), FALSE)
      [] s = "eprint" -> StmtDef("eprint", "w", "", Rel(<<>>), FALSE)
      [] s = "raise" -> StmtDef("raise", "ValueError", "boom", Rel(<<>>), FALSE)
      [] s = "raise_base" -> StmtDef("raise", "BaseException", "bye", Rel(<<>>), FALSE)
      [] s = "write_in" -> StmtDef("write", "", "a", Rel(<<"f">>), FALSE)
      [] s = "write_dotdot" -> StmtDef("write", "", "a", Rel(<<"..", "out">>), FALSE)
      [] s = "read_link" -> StmtDef("read", "result", "", Rel(<<"link", "passwd">>), FALSE)
      [] s = "try_write_link" -> StmtDef("write", "", "a", Rel(<<"link", "x">>), TRUE)
      [] s = "read_in" -> StmtDef("read", "result", "", Rel(<<"f">>), FALSE)
      [] s = "import_subprocess" -> StmtDef("import", "subprocess", "", Rel(<<>>), FALSE)
      [] s = "import_json" -> StmtDef("import", "json", "", Rel(<<>>), FALSE)
      [] s = "from_pickle" -> StmtDef("import", "pickle", "", Rel(<<>>), FALSE)
      [] s = "dunder_pty" -> StmtDef("import", "pty", "", Rel(<<>>), FALSE)
      [] s = "dunder_marshal" -> StmtDef("import", "marshal", "", Rel(<<>>), FALSE)
      [] s = "import_numpy" -> StmtDef("import", "numpy", "", Rel(<<>>), FALSE)
      [] s = "loop" -> StmtDef("loop", "", "", Rel(<<>>), FALSE)

(***************************************************************************)
(* Results of the executor.                                                *)
(***************************************************************************)
ExecutionResult(success, result, output, error) ==
    [kind |-> "returned", success |-> success, result |-> result,
     output |-> output, error |-> error]

\* The names _create_safe_globals binds.
_create_safe_globals ==
    [n \in {"__builtins__", "__name__", "__doc__", "secure_read_file",
            "secure_write_file", "get_project_root"} |-> "builtin"]

Unbuilt == [n \in {} |-> "builtin"]

\* The slip of looking up "_" before "result".
run_code_return_underscore_first(globals) ==
    IF "_" \in DOMAIN globals THEN Some(globals["_"])
    ELSE IF "result" \in DOMAIN globals THEN Some(globals["result"])
    ELSE None

\* safe_globals.get("result", safe_globals.get("_", None))
run_code_return(globals) ==
    IF "result" \in DOMAIN globals THEN Some(globals["result"])
    ELSE IF "_" \in DOMAIN globals THEN Some(globals["_"])
    ELSE None

(***************************************************************************)
(* The injected file capabilities.                                         *)
(***************************************************************************)
Ancestors(p) == {SubSeq(p, 1, k) : k \in 0..Len(p)}

IoOutcome(exc, value, fs, dr, log) ==
    [exc |-> exc, value |-> value, files |-> fs, dirs |-> dr, log |-> log]

\* open(validated_path, "r").read()
OpenRead(path, fs, dr) ==
    IF path \in DOMAIN fs THEN IoOutcome(NoExc, fs[path], fs, dr, {<<"open", path>>})
    ELSE IF path \in dr
    THEN IoOutcome(Exc("IsADirectoryError", <<"Is a directory">>, "code"), "", fs, dr,
                   {<<"open", path>>})
    ELSE IoOutcome(Exc("FileNotFoundError", <<"No such file or directory">>, "code"), "",
                   fs, dr, {<<"open", path>>})

\* validated_path.parent.mkdir(parents=True, exist_ok=True), then
\* open(validated_path, "w").write(content)
MkdirWrite(path, content, fs, dr) ==
    LET need == Ancestors(Parent(path)) IN
    IF \E a \in need : a \in DOMAIN fs
    THEN IoOutcome(Exc("FileExistsError", <<"File exists">>, "code"), "", fs, dr,
                   {<<"mkdir", Parent(path)>>})
    ELSE IF path \in dr \/ path = <<>>
    THEN IoOutcome(Exc("IsADirectoryError", <<"Is a directory">>, "code"), "", fs,
                   dr \cup need, {<<"mkdir", Parent(path)>>, <<"open", path>>})
    ELSE IoOutcome(NoExc, "", (path :> content) @@ fs, dr \cup need,
                   {<<"mkdir", Parent(path)>>, <<"open", path>>})

_secure_read_file(root, p, fs, dr) ==
    LET v == validate_path(root, p) IN
    IF ~v.ok THEN IoOutcome([v.exc EXCEPT !.src = "code"], "", fs, dr, {})
    ELSE OpenRead(v.path, fs, dr)

\* The slip of writing to the resolved path without the boundary check.
_secure_write_file_unchecked(root, p, content, fs, dr) ==
    LET t == Target(root, p) IN
    IF ~t.ok THEN IoOutcome([t.exc EXCEPT !.src = "code"], "", fs, dr, {})
    ELSE MkdirWrite(t.path, content, fs, dr)

_secure_write_file(root, p, content, fs, dr) ==
    LET v == validate_path(root, p) IN
    IF ~v.ok THEN IoOutcome([v.exc EXCEPT !.src = "code"], "", fs, dr, {})
    ELSE MkdirWrite(v.path, content, fs, dr)

(***************************************************************************)
(* re: the part of Python's regular expressions the scanner's tables use.  *)
(* A pattern is a flag and ordered alternatives; an alternative is a       *)
(* sequence of items, each a character class with a quantifier ("1", "?",  *)
(* "*" or "+", all greedy) or the word boundary.                           *)
(***************************************************************************)
LowerCase ==
    ("A" :> "a") @@ ("B" :> "b") @@ ("C" :> "c") @@ ("D" :> "d") @@ ("E" :> "e") @@
    ("F" :> "f") @@ ("G" :> "g") @@ ("H" :> "h") @@ ("I" :> "i") @@ ("J" :> "j") @@
    ("K" :> "k") @@ ("L" :> "l") @@ ("M" :> "m") @@ ("N" :> "n") @@ ("O" :> "o") @@
    ("P" :> "p") @@ ("Q" :> "q") @@ ("R" :> "r") @@ ("S" :> "s") @@ ("T" :> "t") @@
    ("U" :> "u") @@ ("V" :> "v") @@ ("W" :> "w") @@ ("X" :> "x") @@ ("Y" :> "y") @@
    ("Z" :> "z")

Lower(ch) == IF ch \in DOMAIN LowerCase THEN LowerCase[ch] ELSE ch

WordChars ==
    DOMAIN LowerCase \cup {LowerCase[ch] : ch \in DOMAIN LowerCase}
        \cup {"0", "1", "2", "3", "4", "5", "6", "7", "8", "9", "_"}

SpaceChars == {" ", "\t", "\n", "\r", "\f"}

OneOf(set, q) == << [kind |-> "set", set |-> set, text |-> << >>, q |-> q] >>
Lits(text) == << [kind |-> "lit", set |-> {}, text |-> text, q |-> "1"] >>
Dot(q) == << [kind |-> "any", set |-> {}, text |-> << >>, q |-> q] >>
Space(q) == << [kind |-> "space", set |-> {}, text |-> << >>, q |-> q] >>
Word(q) == << [kind |-> "word", set |-> {}, text |-> << >>, q |-> q] >>
Boundary == << [kind |-> "wb", set |-> {}, text |-> << >>, q |-> "1"] >>

\* Under (?i) the literals of a pattern are written in lower case and a
\* character of the text is compared in lower case.
Fold(ch, icase) == IF icase THEN Lower(ch) ELSE ch

\* Does the class of item it accept the character ch?  "." takes anything
\* but a newline.
Accepts(it, ch, icase) ==
    CASE it.kind = "set" -> Fold(ch, icase) \in it.set
      [] it.kind = "any" -> ch # "\n"
      [] it.kind = "space" -> ch \in SpaceChars
      [] it.kind = "word" -> ch \in WordChars
      [] OTHER -> FALSE

\* Are the literal characters lit in the text from position i on?
LitAt(lit, text, i, icase) ==
    /\ i + Len(lit) - 1 <= Len(text)
    /\ \A j \in 1..Len(lit) : Fold(text[i + j - 1], icase) = lit[j]

\* \b at position i: exactly one of the characters around i is a word one.
AtBoundary(text, i) ==
    (i > 1 /\ text[i - 1] \in WordChars) # (i <= Len(text) /\ text[i] \in WordChars)

\* The number of consecutive characters from position i that item it accepts.
RunLength(it, text, i, icase) ==
    LET stops == {j \in i..Len(text) : ~Accepts(it, text[j], icase)}
    IN  IF stops = {} THEN Len(text) + 1 - i
        ELSE (CHOOSE j \in stops : \A other \in stops : j <= other) - i

RECURSIVE MatchItems(_, _, _, _, _)
\* Match items k.. at position i: the position after the match, 0 if none.
\* A quantifier is greedy: of the repetitions after which the rest matches,
\* the longest is the one backtracking arrives at first.
MatchItems(items, k, text, i, icase) ==
    IF k > Len(items) THEN i
    ELSE IF items[k].kind = "wb"
    THEN IF AtBoundary(text, i) THEN MatchItems(items, k + 1, text, i, icase) ELSE 0
    ELSE IF items[k].kind = "lit"
    THEN IF LitAt(items[k].text, text, i, icase)
         THEN MatchItems(items, k + 1, text, i + Len(items[k].text), icase)
         ELSE 0
    ELSE LET least == IF items[k].q \in {"1", "+"} THEN 1 ELSE 0
             most == IF items[k].q \in {"*", "+"} THEN RunLength(items[k], text, i, icase)
                     ELSE IF i <= Len(text) /\ Accepts(items[k], text[i], icase) THEN 1
                     ELSE 0
             ends == {<<n, MatchItems(items, k + 1, text, i + n, icase)>> : n \in least..most}
             fits == {e \in ends : e[2] # 0}
         IN  IF fits = {} THEN 0
             ELSE (CHOOSE e \in fits : \A other \in fits : e[1] >= other[1])[2]

RECURSIVE MatchAlts(_, _, _, _)
\* The alternatives in order, the first that matches at i wins.
MatchAlts(regex, a, text, i) ==
    IF a > Len(regex.alts) THEN 0
    ELSE LET end == MatchItems(regex.alts[a], 1, text, i, regex.icase)
         IN  IF end # 0 THEN end ELSE MatchAlts(regex, a + 1, text, i)

RECURSIVE finditer(_, _, _)
\* re.finditer: the matches from position i on, left to right and not
\* overlapping, each as [start, end] with start the offset (from 0) of its
\* first character; the search goes on where the match ended.
finditer(regex, text, i) ==
    LET starts == {s \in i..(Len(text) + 1) : MatchAlts(regex, 1, text, s) # 0}
    IN  IF starts = {} THEN << >>
        ELSE LET s == CHOOSE first \in starts : \A other \in starts : first <= other
                 end == MatchAlts(regex, 1, text, s)
             IN  << [start |-> s - 1, end |-> end - 1] >>
                     \o finditer(regex, text, IF end > s THEN end ELSE s + 1)

(***************************************************************************)
(* owasp_validator.py: the pattern tables of OWASPValidator.               *)
(***************************************************************************)
SQL_PATTERNS ==
    <<
       [desc |-> "SQL concatenation",
        regex |-> [icase |-> TRUE, alts |-> <<
                Boundary \o Lits(<<"s", "e", "l", "e", "c", "t">>) \o Boundary \o Dot("*") \o
                  Boundary \o Lits(<<"f", "r", "o", "m">>) \o Boundary \o Dot("*") \o Boundary \o
                  Lits(<<"w", "h", "e", "r", "e">>) \o Boundary \o Dot("*") \o Lits(<<"=">>) \o
                  Space("*") \o OneOf({"'", "\""}, "?") \o Space("*") \o Lits(<<"+">>) >>]],
       [desc |-> "SQL INSERT concatenation",
        regex |-> [icase |-> TRUE, alts |-> <<
                Boundary \o Lits(<<"i", "n", "s", "e", "r", "t">>) \o Boundary \o Dot("*") \o
                  Boundary \o Lits(<<"i", "n", "t", "o">>) \o Boundary \o Dot("*") \o Boundary \o
                  Lits(<<"v", "a", "l", "u", "e", "s">>) \o Boundary \o Dot("*") \o Lits(<<"+">>) >>]],
       [desc |-> "SQL UPDATE concatenation",
        regex |-> [icase |-> TRUE, alts |-> <<
                Boundary \o Lits(<<"u", "p", "d", "a", "t", "e">>) \o Boundary \o Dot("*") \o
                  Boundary \o Lits(<<"s", "e", "t">>) \o Boundary \o Dot("*") \o Lits(<<"=">>) \o
                  Dot("*") \o Lits(<<"+">>) >>]],
       [desc |-> "SQL DELETE concatenation",
        regex |-> [icase |-> TRUE, alts |-> <<
                Boundary \o Lits(<<"d", "e", "l", "e", "t", "e">>) \o Boundary \o Dot("*") \o
                  Boundary \o Lits(<<"f", "r", "o", "m">>) \o Boundary \o Dot("*") \o Boundary \o
                  Lits(<<"w", "h", "e", "r", "e">>) \o Boundary \o Dot("*") \o Lits(<<"+">>) >>]],
       [desc |-> "Dynamic SQL execution",
        regex |-> [icase |-> TRUE, alts |-> <<
                Lits(<<"e", "x", "e", "c", "u", "t", "e">>) \o Space("*") \o Lits(<<"(">>) \o
                  Space("*") \o OneOf({"'", "\""}, "1") \o Dot("*") \o Lits(<<"+">>) >>]],
       [desc |-> "F-string SQL query",
        regex |-> [icase |-> TRUE, alts |-> <<
                Lits(<<"f">>) \o OneOf({"'", "\""}, "1") \o Dot("*") \o Lits(<<"{">>) \o
                  Dot("*") \o Lits(<<"}">>) \o Dot("*") \o Lits(<<"s", "e", "l", "e", "c", "t">>) >>]],
       [desc |-> "F-string SQL query",
        regex |-> [icase |-> TRUE, alts |-> <<
                Lits(<<"f">>) \o OneOf({"'", "\""}, "1") \o Dot("*") \o Lits(<<"{">>) \o
                  Dot("*") \o Lits(<<"}">>) \o Dot("*") \o Lits(<<"i", "n", "s", "e", "r", "t">>) >>]],
       [desc |-> "F-string SQL query",
        regex |-> [icase |-> TRUE, alts |-> <<
                Lits(<<"f">>) \o OneOf({"'", "\""}, "1") \o Dot("*") \o Lits(<<"{">>) \o
                  Dot("*") \o Lits(<<"}">>) \o Dot("*") \o Lits(<<"u", "p", "d", "a", "t", "e">>) >>]],
       [desc |-> "F-string SQL query",
        regex |-> [icase |-> TRUE, alts |-> <<
                Lits(<<"f">>) \o OneOf({"'", "\""}, "1") \o Dot("*") \o Lits(<<"{">>) \o
                  Dot("*") \o Lits(<<"}">>) \o Dot("*") \o Lits(<<"d", "e", "l", "e", "t", "e">>) >>]]
    >>

XSS_PATTERNS ==
    <<
       [desc |-> "Direct innerHTML assignment",
        regex |-> [icase |-> TRUE, alts |-> <<
                Lits(<<"i", "n", "n", "e", "r", "h", "t", "m", "l">>) \o Space("*") \o Lits(<<"=">>) >>]],
       [desc |-> "document.write usage",
        regex |-> [icase |-> TRUE, alts |-> <<
                Lits(<<"d", "o", "c", "u", "m", "e", "n", "t", ".", "w", "r", "i", "t", "e">>) \o
                  Space("*") \o Lits(<<"(">>) >>]],
       [desc |-> "eval() usage",
        regex |-> [icase |-> TRUE, alts |-> <<
                Lits(<<"e", "v", "a", "l">>) \o Space("*") \o Lits(<<"(">>) >>]],
       [desc |-> "Inline script tag",
        regex |-> [icase |-> FALSE, alts |-> <<
                Lits(<<"<", "s", "c", "r", "i", "p", "t">>) \o Dot("*") \o Lits(<<">">>) \o
                  Dot("*") \o Lits(<<"<", "/", "s", "c", "r", "i", "p", "t", ">">>) >>]],
       [desc |-> "Inline event handler",
        regex |-> [icase |-> TRUE, alts |-> <<
                Lits(<<"o", "n">>) \o Word("+") \o Space("*") \o Lits(<<"=">>) \o Space("*") \o
                  OneOf({"'", "\""}, "1") >>]]
    >>

CMD_PATTERNS ==
    <<
       [desc |-> "os.system with concatenation",
        regex |-> [icase |-> TRUE, alts |-> <<
                Lits(<<"o", "s", ".", "s", "y", "s", "t", "e", "m">>) \o Space("*") \o
                  Lits(<<"(">>) \o Dot("*") \o Lits(<<"+">>) >>]],
       [desc |-> "subprocess with concatenation",
        regex |-> [icase |-> TRUE, alts |-> <<
                Lits(<<"s", "u", "b", "p", "r", "o", "c", "e", "s", "s", ".", "r", "u", "n">>) \o
                  Space("*") \o Lits(<<"(">>) \o Dot("*") \o Lits(<<"+">>),
                Lits(<<"s", "u", "b", "p", "r", "o", "c", "e", "s", "s", ".", "c", "a", "l", "l">>) \o
                  Space("*") \o Lits(<<"(">>) \o Dot("*") \o Lits(<<"+">>),
                Lits(<<"s", "u", "b", "p", "r", "o", "c", "e", "s", "s", ".", "p", "o", "p", "e", "n">>) \o
                  Space("*") \o Lits(<<"(">>) \o Dot("*") \o Lits(<<"+">>) >>]],
       [desc |-> "exec with concatenation",
        regex |-> [icase |-> TRUE, alts |-> <<
                Lits(<<"e", "x", "e", "c">>) \o Space("*") \o Lits(<<"(">>) \o Dot("*") \o
                  Lits(<<"+">>) >>]],
       [desc |-> "shell=True in subprocess",
        regex |-> [icase |-> TRUE, alts |-> <<
                Lits(<<"s", "h", "e", "l", "l">>) \o Space("*") \o Lits(<<"=">>) \o Space("*") \o
                  Lits(<<"t", "r", "u", "e">>) >>]],
       [desc |-> "os.popen usage",
        regex |-> [icase |-> TRUE, alts |-> <<
                Lits(<<"o", "s", ".", "p", "o", "p", "e", "n">>) \o Space("*") \o Lits(<<"(">>) >>]]
    >>

PATH_PATTERNS ==
    <<
       [desc |-> "Parent directory traversal",
        regex |-> [icase |-> FALSE, alts |-> <<
                Lits(<<".", ".", "/">>) >>]],
       [desc |-> "Windows parent directory traversal",
        regex |-> [icase |-> FALSE, alts |-> <<
                Lits(<<".", ".", "\\", "\\">>) >>]],
       [desc |-> "Access to /etc/passwd",
        regex |-> [icase |-> TRUE, alts |-> <<
                Lits(<<"/", "e", "t", "c", "/", "p", "a", "s", "s", "w", "d">>) >>]],
       [desc |-> "Access to /etc/shadow",
        regex |-> [icase |-> TRUE, alts |-> <<
                Lits(<<"/", "e", "t", "c", "/", "s", "h", "a", "d", "o", "w">>) >>]],
       [desc |-> "Windows system directory",
        regex |-> [icase |-> TRUE, alts |-> <<
                Lits(<<"c", ":", "\\", "\\", "w", "i", "n", "d", "o", "w", "s">>) >>]]
    >>

SSRF_PATTERNS ==
    <<
       [desc |-> "HTTP request with concatenation",
        regex |-> [icase |-> TRUE, alts |-> <<
                Lits(<<"r", "e", "q", "u", "e", "s", "t", "s", ".", "g", "e", "t">>) \o
                  Space("*") \o Lits(<<"(">>) \o Dot("*") \o Lits(<<"+">>),
                Lits(<<"r", "e", "q", "u", "e", "s", "t", "s", ".", "p", "o", "s", "t">>) \o
                  Space("*") \o Lits(<<"(">>) \o Dot("*") \o Lits(<<"+">>),
                Lits(<<"r", "e", "q", "u", "e", "s", "t", "s", ".", "p", "u", "t">>) \o
                  Space("*") \o Lits(<<"(">>) \o Dot("*") \o Lits(<<"+">>),
                Lits(<<"r", "e", "q", "u", "e", "s", "t", "s", ".", "d", "e", "l", "e", "t", "e">>) \o
                  Space("*") \o Lits(<<"(">>) \o Dot("*") \o Lits(<<"+">>) >>]],
       [desc |-> "urlopen with concatenation",
        regex |-> [icase |-> TRUE, alts |-> <<
                Lits(<<"u", "r", "l", "l", "i", "b", ".", "r", "e", "q", "u", "e", "s", "t", ".", "u", "r", "l", "o", "p", "e", "n">>) \o
                  Space("*") \o Lits(<<"(">>) \o Dot("*") \o Lits(<<"+">>) >>]],
       [desc |-> "http.client usage",
        regex |-> [icase |-> TRUE, alts |-> <<
                Lits(<<"h", "t", "t", "p", ".", "c", "l", "i", "e", "n", "t">>) >>]],
       [desc |-> "Localhost access",
        regex |-> [icase |-> TRUE, alts |-> <<
                Lits(<<"1", "2", "7", ".", "0", ".", "0", ".", "1">>),
                Lits(<<"l", "o", "c", "a", "l", "h", "o", "s", "t">>) >>]],
       [desc |-> "AWS metadata IP",
        regex |-> [icase |-> TRUE, alts |-> <<
                Lits(<<"1", "6", "9", ".", "2", "5", "4", ".">>) >>]]
    >>

\* self.patterns: the categories in the order the scan visits them.
patterns ==
    << [category |-> "A03:2021-Injection-SQL", table |-> SQL_PATTERNS],
       [category |-> "A03:2021-Injection-XSS", table |-> XSS_PATTERNS],
       [category |-> "A03:2021-Injection-CMD", table |-> CMD_PATTERNS],
       [category |-> "A01:2021-Broken Access Control", table |-> PATH_PATTERNS],
       [category |-> "A10:2021-SSRF", table |-> SSRF_PATTERNS] >>

(***************************************************************************)
(* OWASPValidator.validate.                                                *)
(***************************************************************************)
_get_severity(category) ==
    CASE category \in {"A03:2021-Injection-SQL", "A03:2021-Injection-XSS",
                       "A03:2021-Injection-CMD"} -> "critical"
      [] category = "A01:2021-Broken Access Control" -> "high"
      [] category = "A10:2021-SSRF" -> "high"
      [] OTHER -> "medium"

_get_remediation(category) ==
    CASE category = "A03:2021-Injection-SQL" ->
             "Use parameterized queries or ORM instead of string concatenation"
      [] category = "A03:2021-Injection-XSS" ->
             "Sanitize user input and use Content Security Policy"
      [] category = "A03:2021-Injection-CMD" ->
             "Avoid shell=True and use array-based subprocess calls"
      [] category = "A01:2021-Broken Access Control" ->
             "Validate and sanitize all file paths, use allowlists"
      [] category = "A10:2021-SSRF" ->
             "Validate URLs against allowlist, block internal IPs"
      [] OTHER -> "Review and fix the identified vulnerability"

DigitChars == <<"0", "1", "2", "3", "4", "5", "6", "7", "8", "9">>

RECURSIVE Decimal(_)
\* str(n) for n >= 0, as a text.
Decimal(n) ==
    IF n < 10 THEN << DigitChars[n + 1] >>
    ELSE Decimal(n \div 10) \o << DigitChars[(n % 10) + 1] >>

RECURSIVE ZeroPad(_, _)
\* The format "0<width>d": zeros on the left up to the width, never cut.
ZeroPad(text, width) ==
    IF Len(text) >= width THEN text ELSE ZeroPad(<<"0">> \o text, width)

\* code[:offset].count("\n")
NewlinesBefore(code, offset) ==
    Cardinality({i \in 1..offset : code[i] = "\n"})

Vulnerability(vuln_id, category, desc, line_num) ==
    [id |-> <<"O", "W", "A", "S", "P", "-">> \o ZeroPad(Decimal(vuln_id), 4),
     category |-> category,
     severity |-> _get_severity(category),
     title |-> desc,
     description |-> <<"Potential ", desc, " vulnerability detected">>,
     location |-> <<"L", "i", "n", "e", " ">> \o Decimal(line_num),
     remediation |-> _get_remediation(category)]

RECURSIVE Entries(_, _)
\* The (category, pattern, description) triples in the order of the two
\* loops of validate, from pattern p of category c on.
Entries(c, p) ==
    IF c > Len(patterns) THEN << >>
    ELSE IF p > Len(patterns[c].table) THEN Entries(c + 1, 1)
    ELSE << [category |-> patterns[c].category,
             desc |-> patterns[c].table[p].desc,
             regex |-> patterns[c].table[p].regex] >> \o Entries(c, p + 1)

AllEntries == Entries(1, 1)

\* A scanner that reports a pattern once, at its first match, however often
\* the pattern matches.
MatchRecords_deduplicated(entry, matches, code, vuln_id) ==
    [m \in 1..(IF matches = << >> THEN 0 ELSE 1) |->
        Vulnerability(vuln_id + m, entry.category, entry.desc,
                      NewlinesBefore(code, matches[m].start) + 1)]

\* The records of one pattern's matches, numbered on from vuln_id.
MatchRecords(entry, matches, code, vuln_id) ==
    [m \in 1..Len(matches) |->
        Vulnerability(vuln_id + m, entry.category, entry.desc,
                      NewlinesBefore(code, matches[m].start) + 1)]

RECURSIVE ScanFrom(_, _, _, _)
\* The loops of validate from entry e on; found[e] is the list of the
\* matches of entry e in the code, vuln_id the number of records made so far.
ScanFrom(code, found, e, vuln_id) ==
    IF e > Len(AllEntries) THEN << >>
    ELSE MatchRecords(AllEntries[e], found[e], code, vuln_id)
             \o ScanFrom(code, found, e + 1, vuln_id + Len(found[e]))

SeverityCount(vulnerabilities, severity) ==
    Cardinality({i \in DOMAIN vulnerabilities : vulnerabilities[i].severity = severity})

compliance_score_unclamped(vulnerabilities) ==
    100 - (SeverityCount(vulnerabilities, "critical") * 25)
        - (SeverityCount(vulnerabilities, "high") * 15)
        - (SeverityCount(vulnerabilities, "medium") * 5)

\* The score is a float in the code; every value it takes is a whole number.
compliance_score(vulnerabilities) ==
    LET score == 100 - (SeverityCount(vulnerabilities, "critical") * 25)
                     - (SeverityCount(vulnerabilities, "high") * 15)
                     - (SeverityCount(vulnerabilities, "medium") * 5)
    IN  IF score < 0 THEN 0 ELSE score

ValidationResult(valid, vulnerabilities, score) ==
    [valid |-> valid, vulnerabilities |-> vulnerabilities, compliance_score |-> score]

validate(code) ==
    LET found == [e \in 1..Len(AllEntries) |-> finditer(AllEntries[e].regex, code, 1)] \o << >>
        vulnerabilities == ScanFrom(code, found, 1, 0)
    IN  ValidationResult(
            {i \in DOMAIN vulnerabilities :
                 vulnerabilities[i].severity \in {"critical", "high"}} = {},
            vulnerabilities,
            compliance_score(vulnerabilities))

(***************************************************************************)
(* Inputs of the path operations.                                          *)
(***************************************************************************)
Components == {"..", ".", "proj", "sub", "link", "in", "etc", "f", NUL}

SeqsUpTo(S, n) == UNION {[1..k -> S] : k \in 0..n}

PathInputs == [abs : BOOLEAN, parts : SeqsUpTo(Components, MaxPathLen)]

(***************************************************************************)
(* Inputs of the scanner: texts of up to MaxScanLines of these lines.      *)
(***************************************************************************)
ScanLines ==
    {
      \* nothing to report
      <<"x", " ", "=", " ", "1", " ", "+", " ", "2">>,
      \* SQL built by concatenation
      <<"q", "u", "e", "r", "y", " ", "=", " ", "\"", "S", "E", "L", "E", "C", "T", " ",
        "*", " ", "F", "R", "O", "M", " ", "u", "s", "e", "r", "s", " ", "W", "H", "E",
        "R", "E", " ", "i", "d", "=", "'", " ", "+", " ", "u", "s", "e", "r", "_", "i", "d">>,
      \* two steps up and a system file
      <<"o", "p", "e", "n", "(", "'", ".", ".", "/", ".", ".", "/", "e", "t", "c", "/",
        "p", "a", "s", "s", "w", "d", "'", ")">>,
      \* an innerHTML assignment
      <<"e", "l", ".", "i", "n", "n", "e", "r", "H", "T", "M", "L", " ", "=", " ", "x">>,
      \* three injections on one line
      <<"o", "s", ".", "s", "y", "s", "t", "e", "m", "(", "\"", "s", "e", "l", "e", "c",
        "t", " ", "a", " ", "f", "r", "o", "m", " ", "t", " ", "w", "h", "e", "r", "e",
        " ", "i", "=", "\"", " ", "+", " ", "e", "v", "a", "l", "(", "x", ")", ")">>,
      \* a local address
      <<"u", " ", "=", " ", "'", "h", "t", "t", "p", ":", "/", "/", "L", "O", "C", "A",
        "L", "H", "O", "S", "T", "/", "'">>,
      \* a shell command built by concatenation
      <<"s", "u", "b", "p", "r", "o", "c", "e", "s", "s", ".", "P", "o", "p", "e", "n",
        "(", "c", " ", "+", " ", "d", ",", " ", "s", "h", "e", "l", "l", "=", "T", "r",
        "u", "e", ")">>,
      \* an empty line
      <<>>,
      \* a request to the metadata address
      <<"r", "e", "q", "u", "e", "s", "t", "s", ".", "g", "e", "t", "(", "u", " ", "+",
        " ", "'", "1", "6", "9", ".", "2", "5", "4", ".", "1", ".", "1", "'", ")">>,
      \* an inline script
      <<"<", "s", "c", "r", "i", "p", "t", ">", "e", "v", "a", "l", "(", "a", ")", "<",
        "/", "s", "c", "r", "i", "p", "t", ">">> }

RECURSIVE JoinLines(_)
\* "\n".join(lines)
JoinLines(lines) ==
    IF lines = << >> THEN << >>
    ELSE IF Len(lines) = 1 THEN lines[1]
    ELSE lines[1] \o <<"\n">> \o JoinLines(Tail(lines))

ScanInputs == {JoinLines(lines) : lines \in SeqsUpTo(ScanLines, MaxScanLines)}

vars == <<cwd, files, dirs, api, call, bufs, sys_stdout, sys_stderr, storage>>

(***************************************************************************)
(* The state of one execute call and of the process it runs in.            *)
(***************************************************************************)
Calls == {1, 2}

IdleCall ==
    [pc |-> "idle", root |-> <<>>, code |-> <<>>, ip |-> 0, globals |-> Unbuilt,
     old_cwd |-> <<>>, saved_out |-> 0, saved_err |-> 0, exc |-> NoExc,
     value |-> None, ret |-> [kind |-> "none"],
     timeout_ms |-> 60000, authorized_imports |-> authorized_imports({})]

EmptyBufs == [out |-> <<>>, err |-> <<>>]

AllIdle == api.op = "none" /\ \A t \in Calls : call[t].pc = "idle"

Programs(stmts, n) == SeqsUpTo(stmts, n)

\* os.chdir(old_cwd) of the finally clause, skipped when the callback failed.
finally_chdir_on_success(c, current) ==
    IF c.exc.cls = "none" THEN c.old_cwd ELSE current

\* finally: os.chdir(old_cwd)
finally_chdir(c, current) == c.old_cwd

\* A guard that would let one scope at a time into the pinned section.
scope_open_serialized(t) ==
    \A u \in Calls \ {t} :
        call[u].pc \notin {"chdir", "redirect", "running", "redirect_exit", "finally"}

\* sandbox_exec takes no lock before os.getcwd(): a scope is entered at once.
scope_open(t) == TRUE

\* A deadline that would end a run whose timeout_ms is 0 at its next statement.
deadline_expired_at_zero(c) == c.timeout_ms = 0

\* execute starts no timer and looks at no clock: timeout_ms is logged, and no
\* deadline ever expires.
deadline_expired(c) == FALSE

\* An import that would succeed for a module of the executor's allow-list.
import_outcome_allow_listed(c, module) ==
    IF module \in c.authorized_imports THEN NoExc
    ELSE Exc("ImportError", <<"__import__ not found">>, "code")

\* An import statement in the code: the builtins handed to exec() hold no
\* __import__, whatever self.authorized_imports holds.
import_outcome(c, module) == Exc("ImportError", <<"__import__ not found">>, "code")

\* A namespace kept from the call before, when there was one.
safe_globals_kept(c) == IF c.globals = Unbuilt THEN _create_safe_globals ELSE c.globals

\* safe_globals = self._create_safe_globals(): a new dictionary in every call.
safe_globals(c) == _create_safe_globals

\* Appending text to the buffer sys.stdout / sys.stderr stands for (0: the real stream).
WriteTo(target, field, text, b) ==
    IF target = 0 THEN b
    ELSE [b EXCEPT ![target][field] = Append(@, text)]

(***************************************************************************)
(* SecurePythonExecutor.execute, step by step.                             *)
(***************************************************************************)
\* main.py execute_code: an isolation and an executor are made for the request
\* and execute(code) is called.
ExecuteBeginWith(t, r, prog, timeout_ms, additional) ==
    /\ call[t].pc = "idle"
    /\ api.op = "none"
    /\ call' = [call EXCEPT ![t] =
                    [IdleCall EXCEPT !.pc = "check_imports", !.root = r, !.code = prog,
                                     !.timeout_ms = timeout_ms,
                                     !.authorized_imports = authorized_imports(additional)]]
    /\ UNCHANGED <<cwd, files, dirs, api, bufs, sys_stdout, sys_stderr, storage>>

\* A request that leaves timeout and authorizedImports at their defaults.
ExecuteBegin(t, r, prog) == ExecuteBeginWith(t, r, prog, 60000, {})

\* blocked = self._check_blocked_imports(code); if blocked: return ...
CheckImports(t) ==
    /\ call[t].pc = "check_imports"
    /\ LET blocked == _check_blocked_imports(SourceText(call[t].code)) IN
       call' = [call EXCEPT ![t] =
                   IF blocked # <<>>
                   THEN [@ EXCEPT !.pc = "done",
                                  !.ret = ExecutionResult(FALSE, None, None,
                                      Some(<<"Blocked import detected: ">>
                                           \o JoinWith(", ", blocked)))]
                   ELSE [@ EXCEPT !.pc = "build"]]
    /\ UNCHANGED <<cwd, files, dirs, api, bufs, sys_stdout, sys_stderr, storage>>

\* stdout_capture, stderr_capture = io.StringIO(); safe_globals = ...
BuildNamespace(t) ==
    /\ call[t].pc = "build"
    /\ call' = [call EXCEPT ![t].pc = "sandbox_exec", ![t].globals = safe_globals(call[t])]
    /\ bufs' = [bufs EXCEPT ![t] = EmptyBufs]
    /\ UNCHANGED <<cwd, files, dirs, api, sys_stdout, sys_stderr, storage>>

\* sandbox_exec: old_cwd = os.getcwd()
SandboxEnter(t) ==
    /\ call[t].pc = "sandbox_exec"
    /\ scope_open(t)
    /\ call' = [call EXCEPT ![t].pc = "chdir", ![t].old_cwd = cwd]
    /\ UNCHANGED <<cwd, files, dirs, api, bufs, sys_stdout, sys_stderr, storage>>

\* sandbox_exec: os.chdir(self.project_root), which fails on a root that is no
\* directory.
SandboxChdir(t) ==
    /\ call[t].pc = "chdir"
    /\ IF call[t].root \in dirs
       THEN /\ cwd' = call[t].root
            /\ call' = [call EXCEPT ![t].pc = "redirect"]
       ELSE /\ cwd' = cwd
            /\ call' = [call EXCEPT ![t].pc = "finally",
                                    ![t].exc = Exc("NotADirectoryError",
                                                   <<"Not a directory">>, "chdir")]
    /\ UNCHANGED <<files, dirs, api, bufs, sys_stdout, sys_stderr, storage>>

\* run_code: with redirect_stdout(stdout_capture), redirect_stderr(stderr_capture):
RedirectEnter(t) ==
    /\ call[t].pc = "redirect"
    /\ call' = [call EXCEPT ![t].pc = IF call[t].code = <<>> THEN "redirect_exit"
                                      ELSE "running",
                            ![t].ip = 1,
                            ![t].saved_out = sys_stdout,
                            ![t].saved_err = sys_stderr]
    /\ sys_stdout' = t
    /\ sys_stderr' = t
    /\ UNCHANGED <<cwd, files, dirs, api, bufs, storage>>

\* Where the call goes after the statement at ip: on, or out of exec().
AfterStmt(c, exc) ==
    [c EXCEPT !.exc = exc,
              !.pc = IF exc.cls # "none" \/ c.ip = Len(c.code) THEN "redirect_exit"
                     ELSE "running",
              !.ip = IF exc.cls # "none" THEN c.ip ELSE c.ip + 1]

\* exec(code, safe_globals): the statement at ip.
RunStmt(t) ==
    /\ call[t].pc = "running"
    /\ LET c == call[t]
           s == Stmt(c.code[c.ip])
       IN
       CASE deadline_expired(c) ->
              /\ call' = [call EXCEPT ![t] =
                             AfterStmt(c, Exc("TimeoutError", <<"timed out">>, "deadline"))]
              /\ UNCHANGED <<files, dirs, bufs, storage>>
         [] s.op = "loop" ->
              \* while True: pass -- the statement never ends
              /\ call' = call
              /\ UNCHANGED <<files, dirs, bufs, storage>>
         [] s.op = "assign" ->
              /\ call' = [call EXCEPT ![t] =
                             AfterStmt([c EXCEPT !.globals = (s.a :> s.b) @@ @], NoExc)]
              /\ UNCHANGED <<files, dirs, bufs, storage>>
         [] s.op = "print" ->
              /\ call' = [call EXCEPT ![t] = AfterStmt(c, NoExc)]
              /\ bufs' = WriteTo(sys_stdout, "out", s.a, bufs)
              /\ UNCHANGED <<files, dirs, storage>>
         [] s.op = "eprint" ->
              /\ call' = [call EXCEPT ![t] = AfterStmt(c, NoExc)]
              /\ bufs' = WriteTo(sys_stderr, "err", s.a, bufs)
              /\ UNCHANGED <<files, dirs, storage>>
         [] s.op = "raise" ->
              /\ call' = [call EXCEPT ![t] = AfterStmt(c, Exc(s.a, <<s.b>>, "code"))]
              /\ UNCHANGED <<files, dirs, bufs, storage>>
         [] s.op = "import" ->
              /\ call' = [call EXCEPT ![t] = AfterStmt(c, import_outcome(c, s.a))]
              /\ UNCHANGED <<files, dirs, bufs, storage>>
         [] s.op = "read" ->
              LET io == _secure_read_file(c.root, s.path, files, dirs) IN
              /\ call' = [call EXCEPT ![t] =
                             IF io.exc.cls = "none"
                             THEN AfterStmt([c EXCEPT !.globals = (s.a :> io.value) @@ @],
                                            NoExc)
                             ELSE AfterStmt(c, IF s.guarded THEN NoExc ELSE io.exc)]
              /\ storage' = storage \cup io.log
              /\ UNCHANGED <<files, dirs, bufs>>
         [] s.op = "write" ->
              LET io == _secure_write_file(c.root, s.path, s.b, files, dirs) IN
              /\ call' = [call EXCEPT ![t] =
                             AfterStmt(c, IF s.guarded THEN NoExc ELSE io.exc)]
              /\ files' = io.files
              /\ dirs' = io.dirs
              /\ storage' = storage \cup io.log
              /\ UNCHANGED bufs
    /\ UNCHANGED <<cwd, api, sys_stdout, sys_stderr>>

\* run_code: the with block is left (sys.stdout and sys.stderr put back) and, with
\* no exception under way, the value of the output slot is returned.
RedirectExit(t) ==
    /\ call[t].pc = "redirect_exit"
    /\ sys_stdout' = call[t].saved_out
    /\ sys_stderr' = call[t].saved_err
    /\ call' = [call EXCEPT ![t].pc = "finally",
                            ![t].value = IF call[t].exc.cls = "none"
                                         THEN run_code_return(call[t].globals)
                                         ELSE None]
    /\ UNCHANGED <<cwd, files, dirs, api, bufs, storage>>

\* sandbox_exec: finally: os.chdir(old_cwd)
SandboxRestore(t) ==
    /\ call[t].pc = "finally"
    /\ cwd' = finally_chdir(call[t], cwd)
    /\ call' = [call EXCEPT ![t].pc = "assemble"]
    /\ UNCHANGED <<files, dirs, api, bufs, sys_stdout, sys_stderr, storage>>

\* text if text else None
OrNone(text) == IF text = <<>> THEN None ELSE Some(text)

\* execute: the ExecutionResult of a run, or the exception that except Exception
\* does not catch and that leaves execute.
assemble(c, b) ==
    IF c.exc.cls = "none"
    THEN ExecutionResult(TRUE, c.value, OrNone(b.out), OrNone(b.err))
    ELSE IF IsException(c.exc.cls)
    THEN ExecutionResult(FALSE, None, OrNone(b.out), Some(c.exc.msg))
    ELSE [kind |-> "propagated", exc |-> c.exc]

Assemble(t) ==
    /\ call[t].pc = "assemble"
    /\ call' = [call EXCEPT ![t].pc = "done", ![t].ret = assemble(call[t], bufs[t])]
    /\ UNCHANGED <<cwd, files, dirs, api, bufs, sys_stdout, sys_stderr, storage>>

\* main.py execute_code: the response is built from the result and the executor,
\* its namespace and its buffers are dropped.
ExecuteReturn(t) ==
    /\ call[t].pc = "done"
    /\ call' = [call EXCEPT ![t] = IdleCall]
    /\ bufs' = [bufs EXCEPT ![t] = EmptyBufs]
    /\ storage' = {}
    /\ UNCHANGED <<cwd, files, dirs, api, sys_stdout, sys_stderr>>

\* The steps of execute, from its call to its return value.
Run(t) ==
    \/ CheckImports(t)
    \/ BuildNamespace(t)
    \/ SandboxEnter(t)
    \/ SandboxChdir(t)
    \/ RedirectEnter(t)
    \/ RunStmt(t)
    \/ RedirectExit(t)
    \/ SandboxRestore(t)
    \/ Assemble(t)

\* execute is called again on the same executor.  What the call before left
\* behind (its namespace, its buffers, its locals, the result the caller got)
\* is still in memory; the new call has its own code and nothing else yet.
ExecuteAgain(t, prog) ==
    /\ call[t].pc = "done"
    /\ call' = [call EXCEPT ![t].pc = "check_imports", ![t].code = prog, ![t].ip = 0,
                            ![t].exc = NoExc]
    /\ UNCHANGED <<cwd, files, dirs, api, bufs, sys_stdout, sys_stderr, storage>>

Step(t) ==
    \/ Run(t)
    \/ ExecuteReturn(t)

Init ==
    /\ cwd = SrvDir
    /\ files = Files0
    /\ dirs = Dirs0
    /\ api = [op |-> "none"]
    /\ call = [t \in Calls |-> IdleCall]
    /\ bufs = [t \in Calls |-> EmptyBufs]
    /\ sys_stdout = 0
    /\ sys_stderr = 0
    /\ storage = {}

\* A caller validates a path (main.py validate_path, or code under execution).
ValidatePathCall(root, p) ==
    /\ AllIdle
    /\ api' = [op |-> "validate_path", root |-> root, path |-> p,
               out |-> validate_path(root, p)]
    /\ UNCHANGED <<cwd, files, dirs, call, bufs, sys_stdout, sys_stderr, storage>>

IsSafePathCall(root, p) ==
    /\ AllIdle
    /\ api' = [op |-> "is_safe_path", root |-> root, path |-> p,
               out |-> is_safe_path(root, p)]
    /\ UNCHANGED <<cwd, files, dirs, call, bufs, sys_stdout, sys_stderr, storage>>

\* The caller has taken the outcome of the call; nothing of it is kept.
ApiReturn ==
    /\ api.op # "none"
    /\ api' = [op |-> "none"]
    /\ UNCHANGED <<cwd, files, dirs, call, bufs, sys_stdout, sys_stderr, storage>>

NextPath ==
    \/ AllIdle /\ \E root \in Roots, p \in PathInputs : ValidatePathCall(root, p)
    \/ AllIdle /\ \E root \in Roots, p \in PathInputs : IsSafePathCall(root, p)
    \/ ApiReturn

SpecPath == Init /\ [][NextPath]_vars

(***************************************************************************)
(* The executor, one call at a time.                                       *)
(***************************************************************************)
ExecRoots == {ProjDir, RootFile}

Next ==
    \/ AllIdle /\ \E r \in ExecRoots, prog \in Programs(Statements, MaxStmts) :
                      ExecuteBegin(1, r, prog)
    \/ Step(1)

Spec == Init /\ [][Next]_vars

(***************************************************************************)
(* Execute calls of several threads of one process, steps interleaved.     *)
(***************************************************************************)
ConcRoots == {ProjDir, Proj2Dir}

ConcStatements == {"print"}

NextConc ==
    \E t \in Calls :
        \/ call[t].pc = "idle" /\
               \E r \in ConcRoots, prog \in Programs(ConcStatements, MaxConcStmts) :
                   ExecuteBegin(t, r, prog)
        \/ Step(t)

SpecConc == Init /\ [][NextConc]_vars

(***************************************************************************)
(* The same code run twice on the same root and the same file system, by   *)
(* two executors or with two timeouts: the first call runs to its result,  *)
(* which is kept, then the second runs on the file system the first was    *)
(* made on.                                                                *)
(***************************************************************************)
Timeouts == {0, 60000}

AdditionalImports == {{}, {"numpy", "subprocess"}}

TwinStatements ==
    {"assign_result", "print", "eprint", "raise", "write_in", "read_in",
     "import_json", "import_numpy", "import_subprocess", "loop"}

\* The second request: the root and the code of the first, and a timeout or
\* an allow-list of its own.
TwinSecond(timeout_ms, additional) ==
    /\ call[1].pc = "done"
    /\ call[2].pc = "idle"
    /\ call' = [call EXCEPT ![2] =
                    [IdleCall EXCEPT !.pc = "check_imports",
                                     !.root = call[1].root, !.code = call[1].code,
                                     !.timeout_ms = timeout_ms,
                                     !.authorized_imports = authorized_imports(additional)]]
    /\ files' = Files0
    /\ dirs' = Dirs0
    /\ storage' = {}
    /\ UNCHANGED <<cwd, api, bufs, sys_stdout, sys_stderr>>

\* Both requests are answered; the next pair starts on the first file system.
TwinEnd ==
    /\ \A t \in Calls : call[t].pc = "done"
    /\ call' = [t \in Calls |-> IdleCall]
    /\ bufs' = [t \in Calls |-> EmptyBufs]
    /\ files' = Files0
    /\ dirs' = Dirs0
    /\ storage' = {}
    /\ UNCHANGED <<cwd, api, sys_stdout, sys_stderr>>

NextTwin ==
    \/ AllIdle /\ \E r \in ExecRoots, prog \in Programs(TwinStatements, MaxTwinStmts),
                      timeout_ms \in Timeouts, additional \in AdditionalImports :
                      ExecuteBeginWith(1, r, prog, timeout_ms, additional)
    \/ call[1].pc = "done" /\ call[2].pc = "idle" /\
           \E timeout_ms \in Timeouts, additional \in AdditionalImports :
               /\ \/ timeout_ms = call[1].timeout_ms
                  \/ authorized_imports(additional) = call[1].authorized_imports
               /\ TwinSecond(timeout_ms, additional)
    \/ \E t \in Calls : Run(t)
    \/ TwinEnd

SpecTwin == Init /\ [][NextTwin]_vars

(***************************************************************************)
(* One executor, called again and again.                                   *)
(***************************************************************************)
SeqStatements ==
    {"assign_result", "assign_underscore", "print", "eprint", "raise", "import_subprocess"}

NextSeq ==
    \/ AllIdle /\ \E prog \in Programs(SeqStatements, MaxSeqStmts) :
                      ExecuteBegin(1, ProjDir, prog)
    \/ call[1].pc = "done" /\ \E prog \in Programs(SeqStatements, MaxSeqStmts) :
                                  ExecuteAgain(1, prog)
    \/ Step(1)

SpecSeq == Init /\ [][NextSeq]_vars

(***************************************************************************)
(* The scanner, one call at a time.                                        *)
(***************************************************************************)
\* A caller scans a text (main.py validate_code) and gets the report.
ScanCall(code) ==
    /\ AllIdle
    /\ api' = [op |-> "scan", code |-> code, out |-> validate(code)]
    /\ UNCHANGED <<cwd, files, dirs, call, bufs, sys_stdout, sys_stderr, storage>>

NextScan ==
    \/ AllIdle /\ \E code \in ScanInputs : ScanCall(code)
    \/ ApiReturn

SpecScan == Init /\ [][NextScan]_vars

(***************************************************************************)
(* Claims about the boundary guard, under SpecPath.                        *)
(***************************************************************************)
\* C1: a path whose canonical form (symbolic links and ".." resolved) is neither
\* the root nor below it makes validate_path fail with PermissionError and
\* return no path.
C1_EscapingPathRejected ==
    (api.op = "validate_path" /\ EscapesRoot(api.root, api.path))
        => /\ ~api.out.ok
           /\ api.out.exc.cls = "PermissionError"
           /\ "path" \notin DOMAIN api.out

\* C1 witness: a symbolic link inside the root that points outside it, on a path
\* whose text stays below the root, has been rejected.
C1_Witness ==
    /\ api.op = "validate_path"
    /\ api.root = ProjDir
    /\ api.path = [abs |-> FALSE, parts |-> <<"link", "f">>]
    /\ IsPrefix(ProjDir, WalkLexical(ProjDir, api.path.parts))
    /\ EscapesRoot(api.root, api.path)
    /\ ~api.out.ok

\* C2: a path whose canonical form is the root or below it makes validate_path
\* succeed, and the path returned is that canonical form, which the root prefixes.
C2_InsidePathAccepted ==
    (api.op = "validate_path" /\ InsideRoot(api.root, api.path))
        => /\ api.out.ok
           /\ api.out.path = Canonical(api.root, api.path).path
           /\ IsPrefix(api.root, api.out.path)

\* C2 witness: a relative path that uses ".." and stays inside has been accepted.
C2_Witness ==
    /\ api.op = "validate_path"
    /\ api.root = ProjDir
    /\ api.path = [abs |-> FALSE, parts |-> <<"sub", "..", "f">>]
    /\ api.out.ok
    /\ api.out.path = <<"proj", "f">>

\* C9: is_safe_path never raises, and gives TRUE exactly when validate_path
\* succeeds on the same path and FALSE whenever validate_path fails.
C9_IsSafePathNeverFails ==
    api.op = "is_safe_path"
        => /\ ~api.out.raised
           /\ api.out.value = validate_path(api.root, api.path).ok

(***************************************************************************)
(* Claims about the executor, one call at a time (Spec).                   *)
(***************************************************************************)
Ran(c) == c.globals # Unbuilt

\* C3: with one scope at a time, the working directory is the project root while
\* the callback runs, and after the scope is left it is the directory recorded on
\* entry, whether the callback returned, the callback raised or the switch to the
\* root failed; between calls it is the directory the process started in.
C3_ScopeRestoresCwd ==
    /\ \A t \in Calls :
          /\ call[t].pc \in {"redirect", "running", "redirect_exit"} => cwd = call[t].root
          /\ (call[t].pc = "assemble" \/ (call[t].pc = "done" /\ Ran(call[t])))
                => cwd = call[t].old_cwd
    /\ (\A t \in Calls : call[t].pc = "idle") => cwd = SrvDir

\* C3 witness: the callback raised, the scope has been left and the directory is
\* the one recorded on entry, not the root.
C3_Witness ==
    /\ call[1].pc = "assemble"
    /\ call[1].exc.src = "code"
    /\ call[1].old_cwd = SrvDir
    /\ call[1].root = ProjDir
    /\ cwd = SrvDir

BlockedIn(prog) ==
    \E i \in 1..Len(BLOCKED_IMPORTS) : HasIdiom(BLOCKED_IMPORTS[i], SourceText(prog))

\* C4: a source text that holds a blocked module in a checked idiom makes execute
\* return at once with success false and an error that names every blocked module
\* found; the namespace is not built, the scope is not entered (the working
\* directory stays), and no storage call is made.
C4_BlockedNeverRuns ==
    [][\A t \in Calls :
          (call[t].pc = "check_imports" /\ BlockedIn(call[t].code)) =>
              /\ call'[t].pc = "done"
              /\ call'[t].ret.kind = "returned"
              /\ ~call'[t].ret.success
              /\ ~call'[t].ret.error.none
              /\ \A i \in 1..Len(BLOCKED_IMPORTS) :
                    HasIdiom(BLOCKED_IMPORTS[i], SourceText(call[t].code)) =>
                        \E k \in 1..Len(call'[t].ret.error.v) :
                            call'[t].ret.error.v[k] = BLOCKED_IMPORTS[i]
              /\ call'[t].globals = Unbuilt
              /\ call'[t].ip = 0
              /\ cwd' = cwd /\ files' = files /\ dirs' = dirs /\ storage' = storage
              /\ bufs' = bufs]_vars

\* C4 witness: a text with two blocked modules, in two idioms, has been refused
\* and nothing has run.
C4_Witness ==
    /\ call[1].pc = "done"
    /\ call[1].code = <<"from_pickle", "import_subprocess">>
    /\ call[1].ret.error = Some(<<"Blocked import detected: ", "subprocess", ", ", "pickle">>)
    /\ ~Ran(call[1])
    /\ cwd = SrvDir

\* C6: whatever exception the executed code raises, execute returns a result with
\* success false, the exception's message as error and the stdout captured before
\* the failure as output (absent if none); the exception does not leave execute.
C6_CodeExceptionNeverPropagates ==
    \A t \in Calls :
        (call[t].pc = "done" /\ call[t].exc.src = "code") =>
            /\ call[t].ret.kind = "returned"
            /\ ~call[t].ret.success
            /\ call[t].ret.error = Some(call[t].exc.msg)
            /\ call[t].ret.output = OrNone(bufs[t].out)

CompletedRun(c) == c.pc = "done" /\ Ran(c) /\ c.exc.cls = "none"

\* C7 as amended: a run that completes without raising gives success true, result
\* the value bound to "result", or else the value bound to "_", or else none,
\* output the captured stdout if non-empty and error the captured stderr if
\* non-empty; "result = 2 + 2" gives result 4 and no output.
C7_CompletedRunResult ==
    \A t \in Calls :
        CompletedRun(call[t]) =>
            /\ call[t].ret.kind = "returned"
            /\ call[t].ret.success
            /\ call[t].ret.result =
                    (IF "result" \in DOMAIN call[t].globals
                     THEN Some(call[t].globals["result"])
                     ELSE IF "_" \in DOMAIN call[t].globals
                     THEN Some(call[t].globals["_"])
                     ELSE None)
            /\ call[t].ret.output = (IF bufs[t].out # <<>> THEN Some(bufs[t].out) ELSE None)
            /\ call[t].ret.error = (IF bufs[t].err # <<>> THEN Some(bufs[t].err) ELSE None)
            /\ call[t].code = <<"assign_result">> =>
                    (call[t].ret.result = Some("4") /\ call[t].ret.output = None)

\* C7 witness: "result = 2 + 2" has run to completion.
C7_Witness ==
    /\ CompletedRun(call[1])
    /\ call[1].code = <<"assign_result">>
    /\ call[1].ret = ExecutionResult(TRUE, Some("4"), None, None)

\* C7 as stated: the result is the value bound to the output slot "result", and
\* none if that slot is unbound.
C7_ResultSlotOnly ==
    \A t \in Calls :
        CompletedRun(call[t]) =>
            call[t].ret.result =
                (IF "result" \in DOMAIN call[t].globals
                 THEN Some(call[t].globals["result"])
                 ELSE None)

EscapingIo(c) ==
    /\ c.pc = "running"
    /\ Stmt(c.code[c.ip]).op \in {"read", "write"}
    /\ EscapesRoot(c.root, Stmt(c.code[c.ip]).path)

\* C8: a secure read or write whose path's canonical form escapes the root makes
\* no storage call and changes no file or directory; unless the code handles it,
\* the PermissionError ends the run and execute returns success false.
C8_EscapingIoTouchesNothing ==
    [][\A t \in Calls :
          /\ EscapingIo(call[t]) =>
                /\ files' = files /\ dirs' = dirs /\ storage' = storage
                /\ ~Stmt(call[t].code[call[t].ip]).guarded =>
                      /\ call'[t].exc.cls = "PermissionError"
                      /\ call'[t].pc = "redirect_exit"
          /\ (call[t].pc = "assemble" /\ call[t].exc.cls = "PermissionError") =>
                /\ call'[t].ret.kind = "returned"
                /\ ~call'[t].ret.success]_vars

\* C8 witness: a write through "../" has ended the call with success false and
\* nothing outside the root has been made.
C8_Witness ==
    /\ call[1].pc = "done"
    /\ call[1].root = ProjDir
    /\ call[1].code = <<"write_in", "write_dotdot">>
    /\ ~call[1].ret.success
    /\ <<"proj", "f">> \in DOMAIN files
    /\ <<"out">> \notin DOMAIN files
    /\ \A e \in storage : IsPrefix(ProjDir, e[2])

(***************************************************************************)
(* Claims about concurrent execute calls (SpecConc).                       *)
(***************************************************************************)
\* C10: nothing serializes the pinned section. While the code of one call runs,
\* a call on another root is free to enter its own scope, and its chdir then takes
\* the process-wide working directory away from the root of the running code,
\* which goes on running.
C10_ScopeNotSerialized ==
    \A t, u \in Calls :
        (t # u /\ call[t].pc = "running" /\ call[t].root # call[u].root) =>
            /\ call[u].pc = "sandbox_exec" =>
                  ENABLED (SandboxEnter(u) /\ call'[t].pc = "running")
            /\ call[u].pc = "chdir" =>
                  ENABLED (SandboxChdir(u) /\ call'[t].pc = "running"
                               /\ cwd' = call[u].root /\ cwd' # call[t].root)

\* C10 witness: the code of one call is running while the working directory is
\* the root of the other call.
C10_Witness ==
    \E t, u \in Calls :
        /\ t # u
        /\ call[t].pc = "running"
        /\ call[t].root # call[u].root
        /\ cwd = call[u].root
        /\ call[u].pc \in {"redirect", "running", "redirect_exit"}

\* The call is inside a pinned-directory scope: sandbox_exec has read
\* old_cwd and has not yet run the os.chdir(old_cwd) of its finally clause.
InScope(c) == c.pc \in {"chdir", "redirect", "running", "redirect_exit", "finally"}

\* C11: whenever every scope that was entered has exited, the working
\* directory is the one that was current before the first scope was entered
\* (the directory the process started in), however the scopes of overlapping
\* calls were interleaved.
C11_CwdRestoredAfterAllScopes ==
    (\A t \in Calls : ~InScope(call[t])) => cwd = SrvDir

(***************************************************************************)
(* Claims about the scanner (SpecScan).                                    *)
(***************************************************************************)
Severities(report, set) ==
    Cardinality({i \in DOMAIN report.vulnerabilities :
                     report.vulnerabilities[i].severity \in set})

\* C5: in every report a scan returns, valid is true exactly when no record
\* has severity critical or high, and the score is
\* max(0, 100 - 25 * criticals - 15 * highs - 5 * mediums), hence a number
\* from 0 to 100.
C5_ReportValidAndScore ==
    api.op = "scan" =>
        LET raw == 100 - 25 * Severities(api.out, {"critical"})
                       - 15 * Severities(api.out, {"high"})
                       - 5 * Severities(api.out, {"medium"})
        IN  /\ api.out.valid <=> (Severities(api.out, {"critical", "high"}) = 0)
            /\ api.out.compliance_score = (IF raw > 0 THEN raw ELSE 0)
            /\ api.out.compliance_score \in 0..100

\* A scan that finds more than four criticals: the raw sum is negative, the
\* score returned is 0 and the report is not valid.
C5_Witness ==
    /\ api.op = "scan"
    /\ Severities(api.out, {"critical"}) > 4
    /\ api.out.compliance_score = 0
    /\ ~api.out.valid

(***************************************************************************)
(* Claims about what a call's parameters and the executor's allow-list do  *)
(* (SpecTwin).                                                             *)
(***************************************************************************)
TwinDone == \A t \in Calls : call[t].pc = "done"

\* The statement the call is at is one that never ends.
AtLoop(c) == c.pc = "running" /\ Stmt(c.code[c.ip]).op = "loop"

RejectedBeforeRun(c) == c.pc = "done" /\ c.globals = Unbuilt

Phase(c) ==
    CASE c.pc = "idle" -> "none"
      [] c.pc = "check_imports" -> "checking-imports"
      [] c.pc = "build" -> "building-namespace"
      [] c.pc = "assemble" -> "capturing-result"
      [] c.pc = "done" -> "terminal"
      [] OTHER -> "running"

PhaseOrder ==
    {<<"none", "checking-imports">>,
     <<"checking-imports", "building-namespace">>, <<"checking-imports", "terminal">>,
     <<"building-namespace", "running">>,
     <<"running", "running">>, <<"running", "capturing-result">>,
     <<"capturing-result", "terminal">>,
     <<"terminal", "checking-imports">>, <<"terminal", "none">>}

\* The statements of the code whose effect is op.
Count(code, ops) == Cardinality({i \in DOMAIN code : Stmt(code[i]).op \in ops})

\* C14: every call goes through checking-imports, building-namespace, running
\* and capturing-result in that order, and nothing of an earlier call on the
\* same executor shows in a later one: the code starts in a namespace that
\* holds the names _create_safe_globals binds and no other, with empty
\* capture buffers, and the result returns a value, an output or an error
\* text only if this call's own code bound, printed or wrote it.
C14_CallsAreIndependent ==
    /\ [](\A t \in Calls :
             /\ call[t].pc = "sandbox_exec"
                    => call[t].globals = _create_safe_globals /\ bufs[t] = EmptyBufs
             /\ (call[t].pc = "done" /\ call[t].ret.kind = "returned") =>
                    LET r == call[t].ret
                        code == call[t].code
                    IN  /\ ~r.result.none => Count(code, {"assign"}) > 0
                        /\ IF r.output.none THEN r.success => Count(code, {"print"}) = 0
                           ELSE Len(r.output.v) <= Count(code, {"print"})
                        /\ r.success =>
                               IF r.error.none THEN Count(code, {"eprint"}) = 0
                               ELSE Len(r.error.v) = Count(code, {"eprint"}))
    /\ [][\A t \in Calls :
               call'[t] # call[t] => <<Phase(call[t]), Phase(call'[t])>> \in PhaseOrder]_vars

\* C14 witness: a call with no statements is about to return success with no
\* value and nothing captured, on an executor whose call before returned a
\* value and an output.
C14_Witness ==
    /\ call[1].pc = "assemble"
    /\ call[1].code = << >>
    /\ call[1].ret.kind = "returned"
    /\ ~call[1].ret.result.none /\ ~call[1].ret.output.none
    /\ call[1].exc = NoExc
    /\ call[1].value = None
    /\ bufs[1] = EmptyBufs

\* ---------------------------------------------------------------------------
\* C15
\* ---------------------------------------------------------------------------

\* The matches of every pattern in a text, in the order of the tables.
Matched(code) ==
    [e \in 1..Len(AllEntries) |-> finditer(AllEntries[e].regex, code, 1)] \o << >>

\* The number of matches of the patterns before pattern e, found being the
\* matches of every pattern.
MatchesBefore(found, e) ==
    Cardinality({pair \in (1..(e - 1)) \X (1..(Len(api.code) + 1)) :
                     pair[2] <= Len(found[pair[1]])})

\* k written with four digits, and n written without padding (n < 100).
FourDigits(k) ==
    << DigitChars[((k \div 1000) % 10) + 1], DigitChars[((k \div 100) % 10) + 1],
       DigitChars[((k \div 10) % 10) + 1], DigitChars[(k % 10) + 1] >>

Plain(n) ==
    IF n < 10 THEN << DigitChars[n + 1] >>
    ELSE << DigitChars[(n \div 10) + 1], DigitChars[(n % 10) + 1] >>

\* C15: a scan returns exactly one record per match and drops none: the number
\* of records is the number of matches of all patterns of the five tables;
\* the records follow the order of the tables, then of the patterns of a
\* table, then of the offsets of the matches; the k-th record has the id
\* OWASP- followed by k in four digits, and its location is Line N where N is
\* one more than the number of newline characters before the match.
C15_OneRecordPerMatch ==
    api.op = "scan" =>
        LET records == api.out.vulnerabilities
            found == Matched(api.code)
            before == [e \in 1..(Len(AllEntries) + 1) |-> MatchesBefore(found, e)] \o << >>
        IN  /\ Len(records) = before[Len(AllEntries) + 1]
            /\ \A e \in 1..Len(AllEntries) : \A m \in 1..Len(found[e]) :
                   LET k == before[e] + m
                       newlines == Cardinality({i \in 1..found[e][m].start :
                                                    api.code[i] = "\n"})
                   IN  /\ records[k].category = AllEntries[e].category
                       /\ records[k].title = AllEntries[e].desc
                       /\ records[k].id = <<"O", "W", "A", "S", "P", "-">> \o FourDigits(k)
                       /\ records[k].location =
                              <<"L", "i", "n", "e", " ">> \o Plain(1 + newlines)
                       /\ m > 1 => found[e][m - 1].start < found[e][m].start

\* C15 witness: a scan of a text of more than one line in which one pattern
\* matches twice on the same line, a pattern matches on the second line, and
\* the report holds three records or more, one of them located on line 2.
C15_Witness ==
    /\ api.op = "scan"
    /\ LET found == Matched(api.code)
       IN  /\ \E e \in 1..Len(AllEntries) :
                  /\ Len(found[e]) >= 2
                  /\ \A i \in (found[e][1].start + 1)..found[e][2].start :
                         api.code[i] # "\n"
           /\ \E e \in 1..Len(AllEntries) : \E m \in 1..Len(found[e]) :
                  \E i \in 1..found[e][m].start : api.code[i] = "\n"
    /\ Len(api.out.vulnerabilities) >= 3
    /\ \E k \in 1..Len(api.out.vulnerabilities) :
           api.out.vulnerabilities[k].location = <<"L", "i", "n", "e", " ", "2">>

====
